---- MODULE Spec2Model ----
(***************************************************************************)
(* Model of test_hijack/clients/cli/feishu.py: module start-up (load_dotenv,*)
(* os.getenv, lark.Client.builder()), the send_text_message helper and the  *)
(* __main__ block.                                                          *)
(*                                                                          *)
(* Python values:  an optional value (None or a value) is a sequence of     *)
(* length <= 1: None is <<>>, the value x is <<x>>.  A str whose content    *)
(* matters for serialisation is a sequence of one-character tokens; the     *)
(* identifiers and credentials, which the script only passes on, are TLA+   *)
(* strings.                                                                 *)
(***************************************************************************)
EXTENDS Integers, Sequences, FiniteSets, TLC

VARIABLES
    name,        \* __name__ of the module: "__main__" or the import name
    pc,          \* position of the single thread of control
    environ,     \* os.environ restricted to APP_ID / APP_SECRET
    APP_ID,      \* module global, line 10
    APP_SECRET,  \* module global, line 11
    client,      \* module global, lines 14-18
    stdout,      \* lines printed so far
    log,         \* entries handed to lark.logger so far
    nCalls,      \* invocations of send_text_message so far
    nCreate,     \* client.im.v1.message.create calls issued so far
    args,        \* arguments of the running / last invocation
    request,     \* local `request` of the running / last invocation
    inflight,    \* request the client is working on (create has not returned)
    response,    \* local `response` of the running / last invocation
    events,      \* what the running / last invocation has done, in order
    outcome,     \* how the last invocation ended: "none", "returned", "raised"
    ret,         \* <<v>> once the last invocation has returned the value v
    mark         \* Len(log) and nCreate when the running / last invocation began

vars == <<name, pc, environ, APP_ID, APP_SECRET, client, stdout, log, nCalls,
          nCreate, args, request, inflight, response, events, outcome, ret,
          mark>>

-----------------------------------------------------------------------------
(* Bounds *)

MaxCalls == 2
MaxMsgLen == 2

-----------------------------------------------------------------------------
(* Python values *)

None == <<>>
Some(x) == <<x>>

\* tokens of a str: "q" is the double quote, "b" the backslash
Quote == "q"
Backslash == "b"
Alphabet == {"h", Quote, Backslash}

RECURSIVE StrsUpTo(_)
StrsUpTo(n) ==
    IF n = 0 THEN {<<>>}
    ELSE LET S == StrsUpTo(n - 1)
         IN  S \cup {Append(s, c) : s \in {t \in S : Len(t) = n - 1}, c \in Alphabet}

EnvNames == {"APP_ID", "APP_SECRET"}
EnvValues == {None, Some(""), Some("cli_a1")}
DotenvValues == {None, Some("cli_a1")}

ReceiveIdTypes == {"open_id", "chat_id"}
ReceiveIds == {"", "oc_test"}
Hello == <<"h", "e", "l", "l", "o">>
Messages == StrsUpTo(MaxMsgLen) \cup {Hello}

-----------------------------------------------------------------------------
(* Serialisation: lark.JSON.marshal and the f-string of the error line *)

\* mutant of Escape: the value is written between the quotes as it is
EscapeNothing(s) == s

\* JSON string escaping of one str: a double quote and a backslash each get a
\* backslash in front, every other token is copied
RECURSIVE Escape(_)
Escape(s) ==
    IF s = <<>> THEN <<>>
    ELSE LET c == Head(s)
         IN  (IF c \in {Quote, Backslash} THEN <<Backslash, c>> ELSE <<c>>)
             \o Escape(Tail(s))

RECURSIVE Spaces(_)
Spaces(n) == IF n = 0 THEN <<>> ELSE <<" ">> \o Spaces(n - 1)

\* the line break and indentation json.dumps writes inside an object when
\* indent is given (indent = None: everything on one line)
Break(indent, depth) ==
    IF indent = None THEN <<>> ELSE <<"\n">> \o Spaces(indent[1] * depth)

\* lark.JSON.marshal of an object with the single member key: val
Marshal(key, val, indent) ==
    <<"{">> \o Break(indent, 1)
    \o <<Quote>> \o Escape(key) \o <<Quote>> \o <<":", " ">>
    \o <<Quote>> \o Escape(val) \o <<Quote>>
    \o Break(indent, 0) \o <<"}">>

TextKey == <<"t", "e", "x", "t">>
MessageIdKey == <<"m", "e", "s", "s", "a", "g", "e", "_", "i", "d">>

\* indent=4 of line 46
Indent == 4

\* str() of a natural number, as the f-string formats response.code
DigitTok == <<"0", "1", "2", "3", "4", "5", "6", "7", "8", "9">>
RECURSIVE Digits(_)
Digits(n) ==
    IF n < 10 THEN <<DigitTok[n + 1]>>
    ELSE Digits(n \div 10) \o <<DigitTok[(n % 10) + 1]>>

\* line 43
ErrorText(resp) ==
    <<"client.im.v1.message.create failed, code: ">> \o Digits(resp.code)
    \o <<", msg: ">> \o resp.msg \o <<", log_id: ">> \o resp.log_id

\* mutant of InfoText: response.msg is serialised in place of response.data
InfoTextOfMsg(resp) == Marshal(MessageIdKey, resp.msg, Some(Indent))

\* line 46: the data of a success response is an object holding message_id
InfoText(resp) == Marshal(MessageIdKey, resp.data, Some(Indent))

\* mutant of BuildRequest: the two identifiers change places
BuildRequestSwapped(receive_id_type, receive_id, message) ==
    [receive_id_type |-> receive_id,
     request_body |-> [receive_id |-> receive_id_type,
                       msg_type |-> "text",
                       content |-> Marshal(TextKey, message, None)]]

\* lines 28-35
BuildRequest(receive_id_type, receive_id, message) ==
    [receive_id_type |-> receive_id_type,
     request_body |-> [receive_id |-> receive_id,
                       msg_type |-> "text",
                       content |-> Marshal(TextKey, message, None)]]

\* lines 14-18
BuildClient(app_id, app_secret) ==
    [app_id |-> app_id, app_secret |-> app_secret, log_level |-> "DEBUG"]

-----------------------------------------------------------------------------
(* What the remote client can answer *)

FailureResponses ==
    { [success |-> FALSE, code |-> 400,
       msg |-> <<"b", "a", "d", " ", "r", "e", "q">>,
       log_id |-> <<"a", "b", "c", "1", "2", "3">>, data |-> <<>>],
      [success |-> FALSE, code |-> 230001,
       msg |-> <<"i", "n", "v", Quote, "i", "d", Quote>>,
       log_id |-> <<"x", "7">>, data |-> <<>>] }

SuccessResponses ==
    { [success |-> TRUE, code |-> 0, msg |-> <<"o", "k">>,
       log_id |-> <<"l", "0">>, data |-> d]
      : d \in { <<"o", "m", "_", "1">>, <<"o", "m", Quote, "2">> } }

Responses == FailureResponses \cup SuccessResponses

\* the two lines of the __main__ block (lines 57 and 58)
Line57 == "line 57: this is a Feishu client example"
Line58 == "line 58: uncomment the code and fill in receive_id_type and receive_id"

-----------------------------------------------------------------------------
(* Start-up: lines 7-18 *)

Init ==
    /\ name \in {"__main__", "feishu"}
    /\ pc = "load_dotenv"
    /\ environ \in [EnvNames -> EnvValues]
    /\ APP_ID = None
    /\ APP_SECRET = None
    /\ client = None
    /\ stdout = <<>>
    /\ log = <<>>
    /\ nCalls = 0
    /\ nCreate = 0
    /\ args = None
    /\ request = None
    /\ inflight = None
    /\ response = None
    /\ events = <<>>
    /\ outcome = "none"
    /\ ret = <<>>
    /\ mark = [log |-> 0, create |-> 0]

\* line 7: load_dotenv() copies each variable of the .env file into os.environ
\* unless the process environment already sets it (override is off)
LoadDotenv ==
    /\ pc = "load_dotenv"
    /\ \E file \in [EnvNames -> DotenvValues] :
          environ' = [n \in EnvNames |->
                         IF environ[n] = None THEN file[n] ELSE environ[n]]
    /\ pc' = "getenv"
    /\ UNCHANGED <<name, APP_ID, APP_SECRET, client, stdout, log, nCalls,
                   nCreate, args, request, inflight, response, events, outcome,
                   ret, mark>>

\* lines 10-11: os.getenv returns None for a variable that is not set
GetEnv ==
    /\ pc = "getenv"
    /\ APP_ID' = environ["APP_ID"]
    /\ APP_SECRET' = environ["APP_SECRET"]
    /\ pc' = "build"
    /\ UNCHANGED <<name, environ, client, stdout, log, nCalls, nCreate, args,
                   request, inflight, response, events, outcome,
                   ret, mark>>

\* lines 14-18: the builder takes whatever the two globals hold; nothing is
\* checked and nothing is sent
BuildClientStep ==
    /\ pc = "build"
    /\ client' = Some(BuildClient(APP_ID, APP_SECRET))
    /\ pc' = "loaded"
    /\ UNCHANGED <<name, environ, APP_ID, APP_SECRET, stdout, log, nCalls,
                   nCreate, args, request, inflight, response, events, outcome, ret,
          mark,
                   ret, mark>>

-----------------------------------------------------------------------------
(* The __main__ block: lines 48-59 *)

\* line 48
MainGuard ==
    /\ pc = "loaded"
    /\ pc' = IF name = "__main__" THEN "print57" ELSE "idle"
    /\ UNCHANGED <<name, environ, APP_ID, APP_SECRET, client, stdout, log,
                   nCalls, nCreate, args, request, inflight, response, events,
                   outcome,
                   ret, mark>>

\* line 57
Print57 ==
    /\ pc = "print57"
    /\ stdout' = Append(stdout, Line57)
    /\ pc' = "print58"
    /\ UNCHANGED <<name, environ, APP_ID, APP_SECRET, client, log, nCalls,
                   nCreate, args, request, inflight, response, events, outcome,
                   ret, mark>>

\* mutant of Print58: the example call of line 59 is not commented out
Print58ThenSend ==
    /\ pc = "print58"
    /\ stdout' = Append(stdout, Line58)
    /\ pc' = "idle"
    /\ UNCHANGED <<name, environ, APP_ID, APP_SECRET, client, log, nCalls,
                   nCreate, args, request, inflight, response, events, outcome,
                   ret, mark>>

\* line 58, the last statement of the script
Print58 ==
    /\ pc = "print58"
    /\ stdout' = Append(stdout, Line58)
    /\ pc' = "exit"
    /\ UNCHANGED <<name, environ, APP_ID, APP_SECRET, client, log, nCalls,
                   nCreate, args, request, inflight, response, events, outcome, ret,
          mark,
                   ret, mark>>

-----------------------------------------------------------------------------
(* send_text_message: lines 20-46 *)

\* lines 20-35: an importer calls the function; the request is built from the
\* three arguments
Call(receive_id_type, receive_id, message) ==
    /\ pc = "idle"
    /\ nCalls < MaxCalls
    /\ nCalls' = nCalls + 1
    /\ args' = Some([receive_id_type |-> receive_id_type,
                     receive_id |-> receive_id, message |-> message])
    /\ request' = Some(BuildRequest(receive_id_type, receive_id, message))
    /\ response' = None
    /\ events' = <<"build">>
    /\ outcome' = "none"
    /\ ret' = <<>>
    /\ mark' = [log |-> Len(log), create |-> nCreate]
    /\ pc' = "built"
    /\ UNCHANGED <<name, environ, APP_ID, APP_SECRET, client, stdout, log,
                   nCreate, inflight>>

\* line 38, the call: the request goes to the module's client, and the thread
\* blocks
CreateCall ==
    /\ pc = "built"
    /\ inflight' = request
    /\ nCreate' = nCreate + 1
    /\ events' = Append(events, "create")
    /\ pc' = "waiting"
    /\ UNCHANGED <<name, environ, APP_ID, APP_SECRET, client, stdout, log,
                   nCalls, args, request, response, outcome,
                   ret, mark>>

\* line 38, the client returns a response
CreateReturn(resp) ==
    /\ pc = "waiting"
    /\ inflight' = None
    /\ response' = Some(resp)
    /\ events' = Append(events, "response")
    /\ pc' = "responded"
    /\ UNCHANGED <<name, environ, APP_ID, APP_SECRET, client, stdout, log,
                   nCalls, nCreate, args, request, outcome,
                   ret, mark>>

\* mutant of CreateRaise: a try around line 38 logs the failure and returns
CreateRaiseCaught ==
    /\ pc = "waiting"
    /\ inflight' = None
    /\ log' = Append(log, [level |-> "error", text |-> <<"transport error">>])
    /\ events' = Append(events, "raise")
    /\ outcome' = "returned"
    /\ ret' = Some(None)
    /\ pc' = "idle"
    /\ UNCHANGED <<name, environ, APP_ID, APP_SECRET, client, stdout, nCalls,
                   nCreate, args, request, response, mark>>

\* line 38, the client raises: no try surrounds the call, so the exception
\* leaves send_text_message with `response` never assigned
CreateRaise ==
    /\ pc = "waiting"
    /\ inflight' = None
    /\ events' = Append(events, "raise")
    /\ outcome' = "raised"
    /\ pc' = "idle"
    /\ UNCHANGED <<name, environ, APP_ID, APP_SECRET, client, stdout, log,
                   nCalls, nCreate, args, request, response,
                   ret, mark>>

\* mutant of LogError: the return of line 44 is missing, so line 46 runs too
LogErrorFallsThrough ==
    /\ pc = "responded"
    /\ ~ response[1].success
    /\ log' = log \o << [level |-> "error", text |-> ErrorText(response[1])],
                        [level |-> "info", text |-> InfoText(response[1])] >>
    /\ events' = events \o <<"error", "info">>
    /\ outcome' = "returned"
    /\ ret' = Some(None)
    /\ pc' = "idle"
    /\ UNCHANGED <<name, environ, APP_ID, APP_SECRET, client, stdout, nCalls,
                   nCreate, args, request, inflight, response, mark>>

\* mutant of LogError: a failed response sends the request again
LogErrorRetry ==
    /\ pc = "responded"
    /\ ~ response[1].success
    /\ log' = Append(log, [level |-> "error", text |-> ErrorText(response[1])])
    /\ events' = Append(events, "error")
    /\ pc' = "built"
    /\ UNCHANGED <<name, environ, APP_ID, APP_SECRET, client, stdout, nCalls,
                   nCreate, args, request, inflight, response, outcome, ret,
                   mark>>

\* mutant of LogError: the failure path drops the module's client
LogErrorDropsClient ==
    /\ pc = "responded"
    /\ ~ response[1].success
    /\ log' = Append(log, [level |-> "error", text |-> ErrorText(response[1])])
    /\ events' = Append(events, "error")
    /\ client' = None
    /\ outcome' = "returned"
    /\ ret' = Some(None)
    /\ pc' = "idle"
    /\ UNCHANGED <<name, environ, APP_ID, APP_SECRET, stdout, nCalls,
                   nCreate, args, request, inflight, response, mark>>

\* lines 41-44
LogError ==
    /\ pc = "responded"
    /\ ~ response[1].success
    /\ log' = Append(log, [level |-> "error", text |-> ErrorText(response[1])])
    /\ events' = Append(events, "error")
    /\ outcome' = "returned"
    /\ ret' = Some(None)
    /\ pc' = "idle"
    /\ UNCHANGED <<name, environ, APP_ID, APP_SECRET, client, stdout, nCalls,
                   nCreate, args, request, inflight, response, mark>>

\* lines 41 and 46
LogInfo ==
    /\ pc = "responded"
    /\ response[1].success
    /\ log' = Append(log, [level |-> "info", text |-> InfoText(response[1])])
    /\ events' = Append(events, "info")
    /\ outcome' = "returned"
    /\ ret' = Some(None)
    /\ pc' = "idle"
    /\ UNCHANGED <<name, environ, APP_ID, APP_SECRET, client, stdout, nCalls,
                   nCreate, args, request, inflight, response, mark>>

Next ==
    \/ LoadDotenv
    \/ GetEnv
    \/ BuildClientStep
    \/ MainGuard
    \/ Print57
    \/ Print58
    \/ \E t \in ReceiveIdTypes, r \in ReceiveIds, m \in Messages : Call(t, r, m)
    \/ CreateCall
    \/ \E resp \in Responses : CreateReturn(resp)
    \/ CreateRaise
    \/ LogError
    \/ LogInfo

Spec == Init /\ [][Next]_vars

-----------------------------------------------------------------------------
(* Reading the logs and the serialised texts back *)

\* the entries the running / last invocation has logged
CallLog == SubSeq(log, mark.log + 1, Len(log))

\* the create calls the running / last invocation has issued
CallCreates == nCreate - mark.create

\* sub occurs in text as a run of consecutive tokens
Contains(text, sub) ==
    \E i \in 0 .. (Len(text) - Len(sub)) :
        SubSeq(text, i + 1, i + Len(sub)) = sub

\* the JSON string that starts right after an opening quote at position i - 1:
\* its decoded value and the position after its closing quote, or None
RECURSIVE ReadStr(_, _, _)
ReadStr(t, i, acc) ==
    IF i > Len(t) THEN None
    ELSE IF t[i] = Quote THEN Some([val |-> acc, next |-> i + 1])
    ELSE IF t[i] = Backslash
         THEN IF i + 1 > Len(t) \/ t[i + 1] \notin {Quote, Backslash}
              THEN None
              ELSE ReadStr(t, i + 2, Append(acc, t[i + 1]))
    ELSE ReadStr(t, i + 1, Append(acc, t[i]))

\* the position of the first token at or after i that is not white space
RECURSIVE SkipWs(_, _)
SkipWs(t, i) ==
    IF i <= Len(t) /\ t[i] \in {" ", "\n"} THEN SkipWs(t, i + 1) ELSE i

\* a JSON parser for a text that is one object with one string member:
\* <<[key, val]>>, or None when the text is anything else
Unmarshal(t) ==
    LET i1 == SkipWs(t, 1)
    IN  IF ~ (i1 <= Len(t) /\ t[i1] = "{") THEN None
        ELSE LET i2 == SkipWs(t, i1 + 1)
        IN  IF ~ (i2 <= Len(t) /\ t[i2] = Quote) THEN None
        ELSE LET k == ReadStr(t, i2 + 1, <<>>)
        IN  IF k = None THEN None
        ELSE LET i3 == SkipWs(t, k[1].next)
        IN  IF ~ (i3 <= Len(t) /\ t[i3] = ":") THEN None
        ELSE LET i4 == SkipWs(t, i3 + 1)
        IN  IF ~ (i4 <= Len(t) /\ t[i4] = Quote) THEN None
        ELSE LET v == ReadStr(t, i4 + 1, <<>>)
        IN  IF v = None THEN None
        ELSE LET i5 == SkipWs(t, v[1].next)
        IN  IF ~ (i5 = Len(t) /\ t[i5] = "}") THEN None
        ELSE Some([key |-> k[1].val, val |-> v[1].val])

-----------------------------------------------------------------------------
(* Claims *)

\* C1: once create has returned a response whose success() is false, the
\* invocation has logged nothing until it reaches line 41, and then ends
\* returned (never raised), with no return value, having logged exactly one
\* entry: an error entry that contains the response's code, msg and log_id.
C1_FailureLoggedNotRaised ==
    (response # None /\ ~ response[1].success) =>
        \/ pc = "responded" /\ CallLog = <<>> /\ ret = <<>> /\ outcome = "none"
        \/ /\ pc = "idle"
           /\ outcome = "returned"
           /\ ret = Some(None)
           /\ Len(CallLog) = 1
           /\ CallLog[1].level = "error"
           /\ Contains(CallLog[1].text, Digits(response[1].code))
           /\ Contains(CallLog[1].text, response[1].msg)
           /\ Contains(CallLog[1].text, response[1].log_id)

\* an invocation has ended on the failure path, after an earlier entry was
\* already in the log
C1_Witness ==
    /\ pc = "idle"
    /\ outcome = "returned"
    /\ response # None
    /\ response[1].code = 400
    /\ mark.log > 0
    /\ Len(log) = mark.log + 1

\* C2: once create has returned a response whose success() is true, the
\* invocation has logged nothing until it reaches line 41, and then ends
\* returned, with no return value, having logged exactly one entry: an info
\* entry whose text parses back to the object {"message_id": <the data>} and
\* is laid out with the indent of 4.
C2_SuccessLoggedOnce ==
    (response # None /\ response[1].success) =>
        \/ pc = "responded" /\ CallLog = <<>> /\ ret = <<>> /\ outcome = "none"
        \/ /\ pc = "idle"
           /\ outcome = "returned"
           /\ ret = Some(None)
           /\ Len(CallLog) = 1
           /\ CallLog[1].level = "info"
           /\ Unmarshal(CallLog[1].text)
                = Some([key |-> MessageIdKey, val |-> response[1].data])
           /\ SubSeq(CallLog[1].text, 1, 7)
                = <<"{", "\n", " ", " ", " ", " ", Quote>>

\* an invocation has ended on the success path with a payload that needs
\* escaping, after an earlier entry was already in the log
C2_Witness ==
    /\ pc = "idle"
    /\ outcome = "returned"
    /\ response # None
    /\ response[1].success
    /\ Quote \in {response[1].data[i] : i \in 1 .. Len(response[1].data)}
    /\ mark.log > 0
    /\ Len(log) = mark.log + 1

\* C3: the request the client is working on has msg_type "text" and a content
\* that is the one-line JSON object whose only member is text, with a value
\* that decodes to exactly the message argument.
C3_TextBody ==
    inflight # None =>
        /\ inflight[1].request_body.msg_type = "text"
        /\ Unmarshal(inflight[1].request_body.content)
             = Some([key |-> TextKey, val |-> args[1].message])
        /\ "\n" \notin {inflight[1].request_body.content[i] :
                           i \in 1 .. Len(inflight[1].request_body.content)}

\* a request is with the client whose message holds a backslash followed by a
\* double quote
C3_Witness ==
    /\ inflight # None
    /\ args[1].message = <<Backslash, Quote>>

\* C4: the request the client is working on carries the receive_id_type and
\* the receive_id of the call, each in its own place; for ("chat_id",
\* "oc_test", "hello") the content is {"text": "hello"}.
C4_Identifiers ==
    inflight # None =>
        /\ inflight[1].receive_id_type = args[1].receive_id_type
        /\ inflight[1].request_body.receive_id = args[1].receive_id
        /\ (args[1] = [receive_id_type |-> "chat_id", receive_id |-> "oc_test",
                       message |-> Hello]
              => inflight[1] =
                   [receive_id_type |-> "chat_id",
                    request_body |->
                      [receive_id |-> "oc_test", msg_type |-> "text",
                       content |-> <<"{", Quote, "t", "e", "x", "t", Quote,
                                     ":", " ", Quote, "h", "e", "l", "l", "o",
                                     Quote, "}">>]])

\* the request of the call ("chat_id", "oc_test", "hello") is with the client
C4_Witness ==
    /\ inflight # None
    /\ args[1] = [receive_id_type |-> "chat_id", receive_id |-> "oc_test",
                  message |-> Hello]

\* C5: an invocation whose create call raised has ended raised: it has not
\* returned, no response was assigned, and it has logged nothing.
C5_RaisePropagates ==
    (events # <<>> /\ events[Len(events)] = "raise") =>
        /\ outcome = "raised"
        /\ ret = <<>>
        /\ response = None
        /\ CallLog = <<>>
        /\ inflight = None

\* the second invocation ended with the create call raising, after the first
\* one had logged an entry
C5_Witness ==
    /\ outcome = "raised"
    /\ nCalls = 2
    /\ Len(log) = 1
    /\ CallCreates = 1

\* C8: run as __main__, the script never invokes send_text_message, never
\* issues a create call and logs nothing; what it has printed is a prefix of
\* the two lines, and at its end exactly the two lines in order.
C8_MainPrintsOnly ==
    name = "__main__" =>
        /\ nCalls = 0
        /\ nCreate = 0
        /\ inflight = None
        /\ log = <<>>
        /\ stdout \in {<<>>, <<Line57>>, <<Line57, Line58>>}
        /\ (pc = "exit" => stdout = <<Line57, Line58>>)

\* the script, run as __main__, has reached its end
C8_Witness == name = "__main__" /\ pc = "exit"

\* C9: an invocation issues at most one create call and logs at most one
\* entry; the request exists when the call is issued, nothing is logged while
\* the call is out, and an entry is logged only with a response in hand; an
\* invocation that has returned has issued exactly one create call and logged
\* exactly one entry, info for a success and error for a failure.
C9_OneCallOneLine ==
    /\ CallCreates \in {0, 1}
    /\ Len(CallLog) \in {0, 1}
    /\ (inflight # None => request # None /\ inflight = request /\ CallLog = <<>>)
    /\ (CallLog # <<>> => response # None /\ inflight = None /\ CallCreates = 1)
    /\ (outcome = "returned" =>
          /\ CallCreates = 1
          /\ Len(CallLog) = 1
          /\ CallLog[1].level = (IF response[1].success THEN "info" ELSE "error")
          /\ events \in { <<"build", "create", "response", "error">>,
                          <<"build", "create", "response", "info">> })

\* the second invocation has returned on the failure path after the first one
\* returned as well
C9_Witness ==
    /\ outcome = "returned"
    /\ nCalls = 2
    /\ Len(log) = 2
    /\ ~ response[1].success

\* C10: once built, the client holds the APP_ID and APP_SECRET read from the
\* environment at start-up; no step after start-up changes the environment,
\* the two globals or the client; the request handed to the client is made of
\* the call's arguments alone; and the entry an invocation logs is appended to
\* a log it leaves otherwise as it was, with a level and a text fixed by the
\* response alone.
C10_StateIsStable ==
    /\ [](client # None =>
            /\ client[1].app_id = environ["APP_ID"]
            /\ client[1].app_secret = environ["APP_SECRET"]
            /\ APP_ID = environ["APP_ID"]
            /\ APP_SECRET = environ["APP_SECRET"])
    /\ [][pc \notin {"load_dotenv", "getenv", "build"}
            => UNCHANGED <<environ, APP_ID, APP_SECRET, client>>]_vars
    /\ [][pc = "built" =>
            /\ inflight'[1].receive_id_type = args[1].receive_id_type
            /\ inflight'[1].request_body.receive_id = args[1].receive_id
            /\ Unmarshal(inflight'[1].request_body.content)
                 = Some([key |-> TextKey, val |-> args[1].message])]_vars
    /\ [][pc = "responded" =>
            /\ Len(log') = Len(log) + 1
            /\ SubSeq(log', 1, Len(log)) = log
            /\ log'[Len(log')].level
                 = (IF response[1].success THEN "info" ELSE "error")
            /\ (response[1].success =>
                  Unmarshal(log'[Len(log')].text)
                    = Some([key |-> MessageIdKey, val |-> response[1].data]))
            /\ (~ response[1].success =>
                  Contains(log'[Len(log')].text, response[1].log_id))]_vars

\* a second invocation has returned after a first one that ended on the
\* failure path, with a client built from credentials that are set
C10_Witness ==
    /\ nCalls = 2
    /\ outcome = "returned"
    /\ Len(log) = 2
    /\ log[1].level = "error"
    /\ client = Some([app_id |-> Some("cli_a1"), app_secret |-> Some("cli_a1"),
                      log_level |-> "DEBUG"])

C7_RequestWellFormed ==
    inflight # None =>
        /\ inflight[1].request_body.receive_id # ""
        /\ args[1].message # <<>>
        /\ client # None
        /\ client[1].app_id \notin {None, Some("")}
        /\ client[1].app_secret \notin {None, Some("")}

====
